---- MODULE Spec2Model ----
(***************************************************************************)
(* A model of package jlog (src/jlog.go): the state-directory resolver,    *)
(* the two log-file openers, the four process-wide leveled loggers, the    *)
(* Debug toggle and the logging API that writes through an io.MultiWriter  *)
(* to standard error and the log file.                                     *)
(*                                                                         *)
(* Paths are sequences of path segments, a message template is a sequence  *)
(* of tokens, and the content of a destination is the sequence of units    *)
(* written to it; each unit carries the number of the call that wrote it.  *)
(***************************************************************************)
EXTENDS Integers, Sequences, FiniteSets, TLC

VARIABLES
    dbg, warn, info, errorl,  \* the four *log.Logger globals (NilLogger = nil)
    Debug,                    \* the exported Debug toggle
    env,                      \* the process environment: XDG_STATE_HOME and the home directory
    dirs,                     \* the paths that are directories on disk
    handles,                  \* the *os.File objects opened so far, by handle number
    disk,                     \* content of every log file on disk, by path
    stderr,                   \* content written to os.Stderr
    ret,                      \* what the most recent call returned
    panicked,                 \* a nil-pointer dereference happened
    calls,                    \* number of Output calls made so far
    initLogCalled,            \* InitLog has been called
    pc                        \* per goroutine: the position inside a logging call

vars == <<dbg, warn, info, errorl, Debug, env, dirs, handles, disk, stderr,
          ret, panicked, calls, initLogCalled, pc>>

----------------------------------------------------------------------------
(* Bounds *)

MaxHandles == 2
MaxCalls == 1
MaxConcCalls == 2

----------------------------------------------------------------------------
(* Constants of the package *)

fileLog == "jasmd.log"
clientsLogFile == "jasmd_clients.log"
jasmDir == <<"jasm">>
xdgStateDefault == <<".local", "state">>

(* log.Logger flag sets: 0 for the info logger, Ldate|Ltime|Lshortfile for the
   others, LstdFlags for the logger ErrorLogger makes up. *)
NoFlags == {}
LdateLtimeLshortfile == {"Ldate", "Ltime", "Lshortfile"}
LstdFlags == {"Ldate", "Ltime"}

----------------------------------------------------------------------------
(* Values *)

Levels == {"dbg", "warn", "info", "errorl"}
Threads == {1, 2}

\* Writers: os.Stderr, io.Discard, an *os.File (by handle number), io.MultiWriter.
Stderr == [kind |-> "stderr", h |-> 0]
Discard == [kind |-> "discard", h |-> 0]
FileWriter(h) == [kind |-> "file", h |-> h]

\* A faulty variant: the file first, standard error second.
MultiWriterFileFirst(h) == <<FileWriter(h), Stderr>>

\* io.MultiWriter(os.Stderr, logFile): the writers in argument order.
MultiWriter(h) == <<Stderr, FileWriter(h)>>

\* A nil *log.Logger, and log.New(out, prefix, flag).
NilLogger == [nil |-> TRUE, out |-> <<>>, prefix |-> "", flag |-> NoFlags]
NewLogger(out, prefix, flag) == [nil |-> FALSE, out |-> out, prefix |-> prefix, flag |-> flag]

\* The environment: os.LookupEnv(xdgStateEnv) gives (val, ok), os.UserHomeDir()
\* gives (dir, err). An environment variable set to the empty string is <<"">>.
XdgSettings == { [ok |-> FALSE, val |-> <<>>],
                 [ok |-> TRUE,  val |-> <<"x">>],
                 [ok |-> TRUE,  val |-> <<"">>] }
HomeSettings == { [err |-> FALSE, dir |-> <<"home", "u">>],
                  [err |-> TRUE,  dir |-> <<>>] }
\* The environments a process starts in; the home directory is looked up only
\* when the variable is unset.
Envs == { e \in [xdg : XdgSettings, home : HomeSettings] : e.xdg.ok => ~e.home.err }

\* filepath.Join: the non-empty elements, joined (and cleaned).
Join(a, b) == SelectSeq(a \o b, LAMBDA s : s /= "")

\* Every directory setStateDir can resolve to, and every file it can lead to.
StateDirs == { Join(x.val, jasmDir) : x \in {y \in XdgSettings : y.ok} }
                 \cup { Join(Join(h.dir, xdgStateDefault), jasmDir) :
                          h \in {g \in HomeSettings : ~g.err} }
LogPaths == { Join(d, <<f>>) : d \in StateDirs, f \in {fileLog, clientsLogFile} }

\* The (template, arguments) pairs the callers pass; "%v" is a verb. One pair
\* has no arguments, the other goes through fmt.Sprintf.
Messages == { [msg |-> <<"m">>, args |-> <<>>], [msg |-> <<"%v">>, args |-> <<"m">>] }

\* What the operating system may answer to one call.
MkdirAllResults == {"nil", "exist", "other"}  \* nil, an error os.IsExist accepts, another error
OpenResults == {"ok", "fail"}
WriteResults == [stderr : {"ok", "fail"}, file : {"ok", "fail"}]

\* A call's return values. file = 0 is a nil *os.File.
\* stateDir, stateErr are what setStateDir returned inside the call and werr
\* is the error of Output, which the logging functions drop.
NoRet == [op |-> "none", file |-> 0, err |-> FALSE, stateDir |-> <<>>,
          stateErr |-> FALSE, logger |-> NilLogger, werr |-> FALSE]
Ret(op) == [NoRet EXCEPT !.op = op]

----------------------------------------------------------------------------
(* setStateDir *)

\* Lines 66-74: the directory setStateDir is about to create, or the error of
\* the home-directory lookup.
ResolveStateDir(e) ==
    IF ~e.xdg.ok
    THEN IF e.home.err
         THEN [err |-> TRUE, dir |-> <<>>]
         ELSE [err |-> FALSE, dir |-> Join(Join(e.home.dir, xdgStateDefault), jasmDir)]
    ELSE [err |-> FALSE, dir |-> Join(e.xdg.val, jasmDir)]

\* os.IsExist(err)
IsExist(mk) == mk = "exist"

\* os.MkdirAll(d, 0700) answers nil when d is a directory afterwards. When d is
\* not a directory it may also answer an "already exists" error: something
\* that is no directory (a dangling symbolic link, a file made meanwhile)
\* holds the name. Any call may fail otherwise (permissions, an I/O error).
\* (os.MkdirAll stats d, makes the parents, calls Mkdir and, on an error, returns
\* nil only if Lstat shows a directory; otherwise it returns Mkdir's error.)
MkdirAllOutcomes(d) ==
    IF d \in dirs THEN {"nil", "other"} ELSE {"nil", "exist", "other"}

\* setStateDir, given the answer mk of os.MkdirAll: the path and error it
\* returns and the directories it has made.
setStateDir(e, mk) ==
    LET r == ResolveStateDir(e) IN
    IF r.err
    THEN [path |-> <<>>, err |-> TRUE, made |-> {}]
    ELSE IF mk /= "nil" /\ ~IsExist(mk)
         THEN [path |-> <<>>, err |-> TRUE, made |-> {}]
         ELSE [path |-> r.dir, err |-> FALSE,
               made |-> IF mk = "nil" THEN {r.dir} ELSE {}]

\* The answers os.MkdirAll can give to setStateDir in the current state.
StateDirOutcomes ==
    IF ResolveStateDir(env).err THEN {"nil"}
    ELSE MkdirAllOutcomes(ResolveStateDir(env).dir)

\* os.OpenFile(f, O_APPEND|O_CREATE|O_WRONLY, 0666) in directory d: it fails
\* when d is no directory, and may fail otherwise.
OpenFileOutcomes(d, ds) == IF d \in ds THEN OpenResults ELSE {"fail"}

----------------------------------------------------------------------------
(* The state *)

Sequential == \A t \in Threads : pc[t].st = "idle"
Idle == [st |-> "idle", lvl |-> "info", k |-> 0, buf |-> <<>>, rest |-> <<>>]

Init ==
    /\ dbg = NilLogger /\ warn = NilLogger /\ info = NilLogger /\ errorl = NilLogger
    /\ Debug = FALSE
    /\ env \in Envs
    /\ dirs = {}
    /\ handles = <<>>
    /\ disk = [p \in LogPaths |-> <<>>]
    /\ stderr = <<>>
    /\ ret = NoRet
    /\ panicked = FALSE
    /\ calls = 0
    /\ initLogCalled = FALSE
    /\ pc = [t \in Threads |-> Idle]

----------------------------------------------------------------------------
(* The toggle *)

\* An assignment to the exported variable Debug.
SetDebug ==
    /\ ~panicked /\ Sequential
    /\ \E b \in BOOLEAN \ {Debug} : Debug' = b
    /\ ret' = NoRet
    /\ UNCHANGED <<dbg, warn, info, errorl, env, dirs, handles, disk, stderr,
                   panicked, calls, initLogCalled, pc>>

----------------------------------------------------------------------------
(* InitLog, InitClientLog, CloseLog *)

\* Lines 98-102: the four loggers InitLog binds to the combined writer mw.
NewLoggers(mw) ==
    [info   |-> NewLogger(mw, "[jasmd] ", NoFlags),
     warn   |-> NewLogger(mw, "WARNING: ", LdateLtimeLshortfile),
     dbg    |-> NewLogger(mw, "DEBUG: ", LdateLtimeLshortfile),
     errorl |-> NewLogger(mw, "ERROR: ", LdateLtimeLshortfile)]

CurrentLoggers == [info |-> info, warn |-> warn, dbg |-> dbg, errorl |-> errorl]

\* A faulty variant: the loggers are made before the errors are looked at.
InitLogLoggersEager(sdErr, op, h) == NewLoggers(MultiWriter(h))

\* A faulty variant: a logger that is already there is kept (first initializer wins).
InitLogLoggersOnce(sdErr, op, h) ==
    IF sdErr \/ op /= "ok" THEN CurrentLoggers
    ELSE [lv \in {"info", "warn", "dbg", "errorl"} |->
            IF CurrentLoggers[lv].nil THEN NewLoggers(MultiWriter(h))[lv]
            ELSE CurrentLoggers[lv]]

\* The loggers after InitLog: both error paths return before line 96.
InitLogLoggers(sdErr, op, h) ==
    IF sdErr \/ op /= "ok" THEN CurrentLoggers ELSE NewLoggers(MultiWriter(h))

InitLog ==
    /\ ~panicked /\ Sequential
    /\ \E mk \in StateDirOutcomes :
         LET sd == setStateDir(env, mk)
             f  == Join(sd.path, <<fileLog>>)
             h  == Len(handles) + 1
         IN \E op \in OpenFileOutcomes(sd.path, dirs \cup sd.made) :
              LET ls == InitLogLoggers(sd.err, op, h) IN
              /\ dirs' = dirs \cup sd.made
              /\ info' = ls.info /\ warn' = ls.warn /\ dbg' = ls.dbg /\ errorl' = ls.errorl
              /\ IF sd.err \/ op /= "ok"
                 THEN /\ handles' = handles
                      /\ ret' = [Ret("InitLog") EXCEPT !.err = TRUE,
                                   !.stateDir = sd.path, !.stateErr = sd.err]
                 ELSE /\ Len(handles) < MaxHandles
                      /\ handles' = Append(handles, [path |-> f, closed |-> FALSE])
                      /\ ret' = [Ret("InitLog") EXCEPT !.file = h,
                                   !.stateDir = sd.path, !.stateErr = sd.err]
    /\ initLogCalled' = TRUE
    /\ UNCHANGED <<Debug, env, disk, stderr, panicked, calls, pc>>

\* A faulty variant: InitClientLog binds the loggers as InitLog does.
InitClientLogLoggersBound(sdErr, op, h) == InitLogLoggers(sdErr, op, h)

\* The loggers after InitClientLog: it assigns none.
InitClientLogLoggers(sdErr, op, h) == CurrentLoggers

InitClientLog ==
    /\ ~panicked /\ Sequential
    /\ \E mk \in StateDirOutcomes :
         LET sd == setStateDir(env, mk)
             f  == Join(sd.path, <<clientsLogFile>>)
             h  == Len(handles) + 1
         IN \E op \in OpenFileOutcomes(sd.path, dirs \cup sd.made) :
              LET ls == InitClientLogLoggers(sd.err, op, h) IN
              /\ dirs' = dirs \cup sd.made
              /\ info' = ls.info /\ warn' = ls.warn /\ dbg' = ls.dbg /\ errorl' = ls.errorl
              /\ IF sd.err \/ op /= "ok"
                 THEN /\ handles' = handles
                      /\ ret' = [Ret("InitClientLog") EXCEPT !.err = TRUE,
                                   !.stateDir = sd.path, !.stateErr = sd.err]
                 ELSE /\ Len(handles) < MaxHandles
                      /\ handles' = Append(handles, [path |-> f, closed |-> FALSE])
                      /\ ret' = [Ret("InitClientLog") EXCEPT !.file = h,
                                   !.stateDir = sd.path, !.stateErr = sd.err]
    /\ UNCHANGED <<Debug, env, disk, stderr, panicked, calls, initLogCalled, pc>>

\* CloseLog(f) on a handle an initializer returned, or on nil (h = 0): Close
\* on a nil or closed *os.File returns an error, which CloseLog drops.
CloseLog ==
    /\ ~panicked /\ Sequential
    /\ \E h \in 0 .. Len(handles) :
         handles' = [i \in DOMAIN handles |->
                       IF i = h THEN [handles[i] EXCEPT !.closed = TRUE] ELSE handles[i]]
    /\ ret' = Ret("CloseLog")
    /\ UNCHANGED <<dbg, warn, info, errorl, Debug, env, dirs, disk, stderr,
                   panicked, calls, initLogCalled, pc>>

----------------------------------------------------------------------------
(* Formatting and writing *)

\* fmt.Sprintf(msg, args...): each verb takes the next argument; a verb without
\* one prints as %!v(MISSING), arguments left over print as %!(EXTRA ...).
RECURSIVE Sprintf(_, _)
Sprintf(msg, args) ==
    IF msg = <<>>
    THEN IF args = <<>> THEN <<>> ELSE <<"%!(EXTRA)">>
    ELSE IF Head(msg) = "%v"
         THEN IF args = <<>>
              THEN <<"%!v(MISSING)">> \o Sprintf(Tail(msg), args)
              ELSE <<Head(args)>> \o Sprintf(Tail(msg), Tail(args))
         ELSE <<Head(msg)>> \o Sprintf(Tail(msg), args)

\* if len(args) > 0 { message = fmt.Sprintf(message, args...) }
Format(msg, args) == IF Len(args) > 0 THEN Sprintf(msg, args) ELSE msg

\* What Logger.Output hands to its writer in one Write: the prefix and the
\* metadata the flags ask for, then the message. n numbers the call.
Buffer(l, n, s) ==
    << [call |-> n, part |-> "header",
        text |-> <<l.prefix>> \o (IF l.flag = NoFlags THEN <<>> ELSE <<"date time file:line: ">>)],
       [call |-> n, part |-> "message", text |-> s \o <<"\n">>] >>

\* One Write on one writer; st = [stderr, disk, err] is the destinations'
\* content and the error so far, wr the operating system's answers. A write
\* on a closed file fails.
WriteTo(w, buf, st, wr) ==
    CASE w.kind = "stderr" ->
           IF wr.stderr = "ok" THEN [st EXCEPT !.stderr = @ \o buf]
           ELSE [st EXCEPT !.err = TRUE]
      [] w.kind = "file" ->
           IF ~handles[w.h].closed /\ wr.file = "ok"
           THEN [st EXCEPT !.disk[handles[w.h].path] = @ \o buf]
           ELSE [st EXCEPT !.err = TRUE]
      [] OTHER -> st

\* The Write of an io.MultiWriter: the writers in order, stopping at the
\* first error.
RECURSIVE MultiWrite(_, _, _, _)
MultiWrite(ws, buf, st, wr) ==
    IF ws = <<>> THEN st
    ELSE LET s1 == WriteTo(Head(ws), buf, st, wr) IN
         IF s1.err THEN s1 ELSE MultiWrite(Tail(ws), buf, s1, wr)

----------------------------------------------------------------------------
(* The logging API *)

\* One logging function: return when skip holds, else format and call
\* l.Output, whose error goes to onErr ("discard": the result is dropped).
\* Output on a nil logger is a nil-pointer dereference.
LogCall(op, l, skip, onErr, msg, args, wr) ==
    /\ ~panicked /\ Sequential
    /\ IF skip
       THEN ret' = Ret(op) /\ UNCHANGED <<stderr, disk, panicked, calls>>
       ELSE /\ calls < MaxCalls
            /\ calls' = calls + 1
            /\ IF l.nil
               THEN panicked' = TRUE /\ ret' = Ret(op) /\ UNCHANGED <<stderr, disk>>
               ELSE LET st == MultiWrite(l.out, Buffer(l, calls + 1, Format(msg, args)),
                                         [stderr |-> stderr, disk |-> disk, err |-> FALSE], wr)
                    IN /\ stderr' = st.stderr
                       /\ disk' = st.disk
                       /\ ret' = [Ret(op) EXCEPT !.werr = st.err]
                       /\ panicked' = (onErr = "panic" /\ st.err)
    /\ UNCHANGED <<dbg, warn, info, errorl, Debug, env, dirs, handles, initLogCalled, pc>>

\* A faulty variant: the error of Output is not dropped.
OnOutputErrorPanic == "panic"

\* What the logging functions do with the error of Output: nothing.
OnOutputError == "discard"

\* A faulty variant: Debugf without the test of the toggle.
DebugfSkipsNilOnly == dbg.nil

DebugfSkips == dbg.nil \/ ~Debug

\* A faulty variant: Infof without the nil test.
InfofNeverSkips == FALSE

InfofSkips == info.nil
WarnfSkips == warn.nil
ErrorfSkips == errorl.nil

Debugf ==
    \E m \in Messages, wr \in WriteResults :
        LogCall("Debugf", dbg, DebugfSkips, OnOutputError, m.msg, m.args, wr)

Infof ==
    \E m \in Messages, wr \in WriteResults :
        LogCall("Infof", info, InfofSkips, OnOutputError, m.msg, m.args, wr)

Warnf ==
    \E m \in Messages, wr \in WriteResults :
        LogCall("Warnf", warn, WarnfSkips, OnOutputError, m.msg, m.args, wr)

Errorf ==
    \E m \in Messages, wr \in WriteResults :
        LogCall("Errorf", errorl, ErrorfSkips, OnOutputError, m.msg, m.args, wr)

\* log.New(io.Discard, "", log.LstdFlags)
DiscardLogger == NewLogger(<<Discard>>, "", LstdFlags)

\* A faulty variant: ErrorLogger without the nil test.
ErrorLoggerResultRaw == errorl

\* The value ErrorLogger returns.
ErrorLoggerResult == IF errorl.nil THEN DiscardLogger ELSE errorl

\* ErrorLogger(), and the caller printing msg through the instance it got.
ErrorLogger ==
    /\ ~panicked /\ Sequential
    /\ calls < MaxCalls
    /\ calls' = calls + 1
    /\ \E m \in Messages, wr \in WriteResults :
         LET l == ErrorLoggerResult
             msg == Format(m.msg, m.args) IN
         /\ ret' = [Ret("ErrorLogger") EXCEPT !.logger = l]
         /\ IF l.nil
            THEN panicked' = TRUE /\ UNCHANGED <<stderr, disk>>
            ELSE LET st == MultiWrite(l.out, Buffer(l, calls + 1, msg),
                                      [stderr |-> stderr, disk |-> disk, err |-> FALSE], wr)
                 IN /\ stderr' = st.stderr
                    /\ disk' = st.disk
                    /\ panicked' = panicked
    /\ UNCHANGED <<dbg, warn, info, errorl, Debug, env, dirs, handles, initLogCalled, pc>>

Next ==
    \/ SetDebug
    \/ InitLog
    \/ InitClientLog
    \/ CloseLog
    \/ Debugf
    \/ Infof
    \/ Warnf
    \/ Errorf
    \/ ErrorLogger

Spec == Init /\ [][Next]_vars

----------------------------------------------------------------------------
(* Concurrent logging after a completed InitLog *)

LoggerOf(lvl) ==
    CASE lvl = "dbg" -> dbg [] lvl = "warn" -> warn [] lvl = "info" -> info
      [] OTHER -> errorl

SkipsOf(lvl) ==
    CASE lvl = "dbg" -> DebugfSkips [] lvl = "warn" -> WarnfSkips
      [] lvl = "info" -> InfofSkips [] OTHER -> ErrorfSkips

\* A faulty variant: the header and the message go out in separate writes.
WriteSizeOne(rest) == 1

\* How much of the buffer one Write on an *os.File transfers before another
\* Write on the same file can run: all of it, since the file's write lock is
\* held until the buffer is out; Output makes one Write with the whole line.
WriteSize(rest) == Len(rest)

\* The state a successful InitLog leaves, from where goroutines start logging.
ConcInit ==
    LET e  == CHOOSE e \in Envs : e.xdg.ok /\ e.xdg.val = <<"x">>
        sd == setStateDir(e, "nil")
        ls == NewLoggers(MultiWriter(1))
    IN /\ env = e
       /\ dirs = sd.made
       /\ handles = << [path |-> Join(sd.path, <<fileLog>>), closed |-> FALSE] >>
       /\ info = ls.info /\ warn = ls.warn /\ dbg = ls.dbg /\ errorl = ls.errorl
       /\ Debug \in BOOLEAN
       /\ disk = [p \in LogPaths |-> <<>>]
       /\ stderr = <<>>
       /\ ret = [Ret("InitLog") EXCEPT !.file = 1, !.stateDir = sd.path]
       /\ panicked = FALSE
       /\ calls = 0
       /\ initLogCalled = TRUE
       /\ pc = [t \in Threads |-> Idle]

\* Goroutine t enters a logging function: the nil and Debug checks, the
\* formatting, and Output building its line.
Enter(t) ==
    /\ pc[t].st = "idle"
    /\ calls < MaxConcCalls
    /\ \E lvl \in Levels, m \in Messages :
         /\ ~SkipsOf(lvl)
         /\ pc' = [pc EXCEPT ![t] = [st |-> "lock", lvl |-> lvl, k |-> 0,
                     buf |-> Buffer(LoggerOf(lvl), calls + 1, Format(m.msg, m.args)),
                     rest |-> <<>>]]
    /\ calls' = calls + 1
    /\ UNCHANGED <<dbg, warn, info, errorl, Debug, env, dirs, handles, disk, stderr,
                   ret, panicked, initLogCalled>>

\* Output takes the mutex of its own Logger.
Lock(t) ==
    /\ pc[t].st = "lock"
    /\ \A u \in Threads \ {t} : ~(pc[u].st = "write" /\ pc[u].lvl = pc[t].lvl)
    /\ pc' = [pc EXCEPT ![t].st = "write", ![t].k = 1, ![t].rest = pc[t].buf]
    /\ UNCHANGED <<dbg, warn, info, errorl, Debug, env, dirs, handles, disk, stderr,
                   ret, panicked, calls, initLogCalled>>

\* The next Write of the MultiWriter: on an error Output returns (and the
\* logging function drops the error); after the last writer it returns too.
Write(t) ==
    /\ pc[t].st = "write"
    /\ \E wr \in WriteResults :
         LET out   == LoggerOf(pc[t].lvl).out
             n     == WriteSize(pc[t].rest)
             chunk == SubSeq(pc[t].rest, 1, n)
             left  == SubSeq(pc[t].rest, n + 1, Len(pc[t].rest))
             st    == WriteTo(out[pc[t].k], chunk,
                              [stderr |-> stderr, disk |-> disk, err |-> FALSE], wr)
         IN /\ stderr' = st.stderr
            /\ disk' = st.disk
            /\ pc' = [pc EXCEPT ![t] =
                        IF st.err THEN Idle
                        ELSE IF left /= <<>> THEN [pc[t] EXCEPT !.rest = left]
                        ELSE IF pc[t].k = Len(out) THEN Idle
                        ELSE [pc[t] EXCEPT !.k = pc[t].k + 1, !.rest = pc[t].buf]]
    /\ UNCHANGED <<dbg, warn, info, errorl, Debug, env, dirs, handles, ret,
                   panicked, calls, initLogCalled>>

ConcNext == \E t \in Threads : Enter(t) \/ Lock(t) \/ Write(t)

ConcSpec == ConcInit /\ [][ConcNext]_vars

----------------------------------------------------------------------------
(* Properties *)

LogOps == {"Debugf", "Infof", "Warnf", "Errorf"}
InitOps == {"InitLog", "InitClientLog"}
LoggersOf == <<dbg, warn, info, errorl>>
AllNil == dbg.nil /\ warn.nil /\ info.nil /\ errorl.nil

IsLogFile(p) == p /= <<>> /\ p[Len(p)] = fileLog
IsClientsFile(p) == p /= <<>> /\ p[Len(p)] = clientsLogFile

\* The handles successful InitLog calls returned; the most recent of them.
LogHandles == { i \in DOMAIN handles : IsLogFile(handles[i].path) }
InitLogSucceeded == LogHandles /= {}
LatestLogHandle == CHOOSE i \in LogHandles : \A j \in LogHandles : j <= i

\* The step is a logging call that reached Output.
Emits == calls' = calls + 1
\* What the step appended to standard error.
AddedToStderr == SubSeq(stderr', Len(stderr) + 1, Len(stderr'))

\* C1 as stated: after a failing InitLog the handle is nil and none of the
\* four loggers is initialized, also when an earlier InitLog succeeded.
C1_FailedInitLogLeavesNoLogger ==
    (ret.op = "InitLog" /\ ret.err) => (ret.file = 0 /\ AllNil)

\* C1 amended: a failing InitLog returns a nil handle and an error and leaves
\* the four loggers and the handles as they were; as long as no InitLog has
\* succeeded the four loggers are nil and a logging call writes nothing.
C1_FailedInitLogChangesNoLogger ==
    [][ /\ (ret'.op = "InitLog" /\ ret'.err) =>
              (ret'.file = 0 /\ LoggersOf' = LoggersOf /\ handles' = handles)
        /\ (initLogCalled /\ ~InitLogSucceeded /\ ret'.op \in LogOps) =>
              (AllNil /\ ~Emits /\ stderr' = stderr /\ disk' = disk /\ ~panicked')
      ]_vars

\* An InitLog that failed after an earlier one had succeeded.
C1_Witness == ret.op = "InitLog" /\ ret.err /\ ~info.nil /\ InitLogSucceeded

\* C2: while InitLog has never been called, a call of Debugf, Infof, Warnf or
\* Errorf returns without a panic and appends nothing to standard error or to
\* any file, whatever the Debug toggle is.
C2_NoOutputBeforeInitLog ==
    [][ (~initLogCalled /\ ret'.op \in LogOps) =>
          (~Emits /\ stderr' = stderr /\ disk' = disk /\ ~panicked' /\ ~ret'.werr)
      ]_vars

\* Debugf was called with the toggle on and InitLog never called.
C2_Witness == ~initLogCalled /\ ret.op = "Debugf" /\ Debug /\ ~panicked

\* C3: Debugf reaches Output exactly when Debug is true and InitLog has
\* succeeded; otherwise it writes nothing, and when it does and the write does
\* not fail its line is appended to standard error. Infof, Warnf and Errorf
\* reach Output exactly when InitLog has succeeded, whatever the toggle is.
C3_DebugToggleGatesDebugfOnly ==
    [][ /\ ret'.op = "Debugf" =>
              /\ Emits <=> (Debug /\ InitLogSucceeded)
              /\ ~(Debug /\ InitLogSucceeded) => (stderr' = stderr /\ disk' = disk)
              /\ (Debug /\ InitLogSucceeded /\ ~ret'.werr) =>
                    \E m \in Messages :
                        stderr' = stderr \o Buffer(dbg, calls', Format(m.msg, m.args))
        /\ ret'.op \in LogOps \ {"Debugf"} => (Emits <=> InitLogSucceeded)
      ]_vars

\* A Debugf with the toggle off that wrote nothing, after a Debugf with the
\* toggle on whose line is on standard error.
C3_Witness ==
    /\ ret.op = "Debugf" /\ ~Debug /\ InitLogSucceeded /\ calls = 1
    /\ Len(stderr) = 2 /\ stderr[1].text[1] = "DEBUG: "

\* C4 as stated: after a successful InitLog what is on standard error equals
\* what is in the log file, after any sequence of operations.
C4_StderrEqualsLogFile ==
    InitLogSucceeded => stderr = disk[handles[LatestLogHandle].path]

\* C4 amended: a logging call that reaches Output hands its line to standard
\* error first and then to the file of the most recent successful InitLog.
\* When no write fails the same bytes are appended to both; when a write
\* fails (a closed handle, a failing destination) the file gets nothing, and
\* the file never gets bytes that standard error did not get.
C4_SameBytesUnlessAWriteFails ==
    [][ (ret'.op \in LogOps /\ Emits) =>
          LET p == handles[LatestLogHandle].path
              added == AddedToStderr
          IN /\ stderr' = stderr \o added
             /\ \A q \in LogPaths \ {p} : disk'[q] = disk[q]
             /\ ~ret'.werr => (added /= <<>> /\ disk'[p] = disk[p] \o added)
             /\ ret'.werr => disk'[p] = disk[p]
             /\ handles[LatestLogHandle].closed => ret'.werr
      ]_vars

\* A logging call none of whose writes failed: its line is on both.
C4_Witness ==
    /\ ret.op \in LogOps /\ ~ret.werr /\ calls = 1 /\ InitLogSucceeded
    /\ Len(stderr) = 2 /\ disk[handles[LatestLogHandle].path] = stderr

\* C5: a successful InitLog, the second included, binds all four loggers to the
\* combined writer of the handle it returns; from then on a logging call
\* writes its line once, through that handle and no earlier one.
C5_LastInitLogWins ==
    [][ /\ (ret'.op = "InitLog" /\ ~ret'.err) =>
              /\ ret'.file = Len(handles) + 1
              /\ CurrentLoggers' = NewLoggers(MultiWriter(ret'.file))
        /\ InitLogSucceeded' =>
              CurrentLoggers' = NewLoggers(MultiWriter(LatestLogHandle'))
        /\ (ret'.op \in LogOps /\ Emits) =>
              LET p == handles[LatestLogHandle].path IN
              /\ handles[LatestLogHandle].closed => disk' = disk
              /\ (~handles[LatestLogHandle].closed /\ ~ret'.werr) =>
                    /\ Len(disk'[p]) = Len(disk[p]) + 2
                    /\ Cardinality({ i \in DOMAIN disk'[p] : disk'[p][i].call = calls' }) = 2
      ]_vars

\* After a second successful InitLog and a CloseLog of the first handle, a
\* logging call has put its line into the file.
C5_Witness ==
    /\ Cardinality(LogHandles) = 2 /\ ret.op \in LogOps /\ ~ret.werr
    /\ \E i \in LogHandles : i /= LatestLogHandle /\ handles[i].closed
    /\ Len(disk[handles[LatestLogHandle].path]) = 2

\* C6: InitClientLog changes none of the four loggers, nor Debug, nor any
\* content; it returns a handle on the clients file or nil and an error; and
\* no clients file is ever written.
C6_InitClientLogLeavesLoggers ==
    [][ /\ ret'.op = "InitClientLog" =>
              /\ LoggersOf' = LoggersOf /\ Debug' = Debug
              /\ stderr' = stderr /\ disk' = disk
              /\ ret'.err => (ret'.file = 0 /\ handles' = handles)
              /\ ~ret'.err => /\ ret'.file = Len(handles) + 1
                              /\ Len(handles') = Len(handles) + 1
                              /\ IsClientsFile(handles'[ret'.file].path)
        /\ \A p \in LogPaths : IsClientsFile(p) => disk'[p] = <<>>
      ]_vars

\* A successful InitClientLog after a successful InitLog.
C6_Witness == ret.op = "InitClientLog" /\ ~ret.err /\ InitLogSucceeded /\ ~info.nil

\* C7: ErrorLogger never returns nil and changes no logger; while errorl is nil
\* the instance it returns writes to io.Discard and nothing reaches standard
\* error or a file; once InitLog has succeeded it returns errorl itself.
C7_ErrorLoggerNeverNil ==
    [][ ret'.op = "ErrorLogger" =>
          /\ ~ret'.logger.nil /\ ~panicked'
          /\ LoggersOf' = LoggersOf /\ Debug' = Debug
          /\ ~InitLogSucceeded =>
                /\ ret'.logger.out = <<Discard>>
                /\ stderr' = stderr /\ disk' = disk
          /\ InitLogSucceeded => (ret'.logger = errorl /\ ~errorl.nil)
      ]_vars

\* ErrorLogger called, and its result printed to, with errorl still nil.
C7_Witness == ret.op = "ErrorLogger" /\ errorl.nil /\ calls = 1 /\ stderr = <<>>

\* C8: a logging call whose write fails returns without a panic and leaves
\* the four loggers, the toggle and the handles as they were.
C8_WriteErrorsAreDropped ==
    [][ (ret'.op \in LogOps /\ ret'.werr) =>
          (~panicked' /\ LoggersOf' = LoggersOf /\ Debug' = Debug /\ handles' = handles)
      ]_vars

\* A logging call whose write failed on the handle CloseLog had closed.
C8_Witness ==
    /\ ret.op \in LogOps /\ ret.werr /\ ~panicked /\ InitLogSucceeded
    /\ handles[LatestLogHandle].closed /\ Len(stderr) = 2

\* Every line on c is whole and in one piece: a header directly followed by
\* the message of the same call, and no call twice.
Contiguous(c) ==
    /\ \A i \in DOMAIN c :
          IF c[i].part = "header"
          THEN i + 1 \in DOMAIN c /\ c[i + 1].part = "message" /\ c[i + 1].call = c[i].call
          ELSE i - 1 \in DOMAIN c /\ c[i - 1].part = "header" /\ c[i - 1].call = c[i].call
    /\ \A i, j \in DOMAIN c : (c[i].call = c[j].call /\ i < j) => j = i + 1

\* C9: with goroutines logging concurrently after a completed InitLog, at the
\* same or at different levels, every line on standard error and in the log
\* file is in one piece, never split by another call's line.
C9_LinesAreContiguous ==
    Contiguous(stderr) /\ \A p \in LogPaths : Contiguous(disk[p])

\* Two calls at different levels in flight at once: both lines are on
\* standard error and neither is in the file yet.
C9_Witness ==
    /\ pc[1].st = "write" /\ pc[2].st = "write" /\ pc[1].lvl /= pc[2].lvl
    /\ Len(stderr) = 4 /\ \A p \in LogPaths : disk[p] = <<>>

\* C10: when setStateDir succeeds inside InitLog or InitClientLog, the path is
\* the base directory joined with "jasm" and that directory exists; when it
\* fails the path is empty and the initializer returns nil and an error.
C10_StateDirExistsAfterSuccess ==
    ret.op \in InitOps =>
        /\ ~ret.stateErr =>
              /\ ret.stateDir =
                    Join(IF env.xdg.ok THEN env.xdg.val
                         ELSE Join(env.home.dir, xdgStateDefault), jasmDir)
              /\ ret.stateDir \in dirs
        /\ ret.stateErr => (ret.stateDir = <<>> /\ ret.err /\ ret.file = 0)

====
